---- MODULE Spec2Model ----
(***************************************************************************)
(* A model of the linguist portal (app/linguist): the Auth Layer           *)
(* (auth.py), the Data Access Layer (db_helpers.py) and the Route Layer    *)
(* (routes.py), run against the external auth provider and data store.     *)
(*                                                                         *)
(* Python values are modelled as records: None is [none |-> TRUE], a str   *)
(* returned where another type may be returned is [str |-> s], a dict is   *)
(* the record of its keys.  A call returns [raised, exc, val, w]: whether  *)
(* it raised, the exception's message, the value returned and the world    *)
(* (provider + store + the log of backend calls) after it.                 *)
(*                                                                         *)
(* Every supabase call in the source is a synchronous call made inside an  *)
(* async def, so a handler never yields between two of its calls: one      *)
(* request is one atomic step.  What the provider and the store answer is  *)
(* not in the source: each call takes its outcome o from the outcomes the  *)
(* calling code distinguishes (a value, a value without user / session /   *)
(* data, an exception).                                                    *)
(***************************************************************************)
EXTENDS Integers, Sequences, FiniteSets, TLC

\* ------------------------------------------------------------- bounds
\* rows the projects table takes in one behaviour
MaxProjects == 1

\* ------------------------------------------------------------- inputs
Emails == {"a@x", "b@x"}
\* whether the password is the right one is the provider's verdict, an outcome
\* of the call
Passwords == {"pw"}
None == [none |-> TRUE]
Str(s) == [str |-> s]
Phones == {None, Str("555")}
Titles == {"t1"}
UiLangs == {"en"}
TargetLangs == {"sw"}
\* the ?code= query parameter: absent, empty, or an authorization code
Codes == {None, Str(""), Str("c1")}
\* an access token is modelled by the identity id it stands for: NoToken is no
\* cookie, ForgedToken a token the provider never issued
NoToken == 0
ForgedToken == Cardinality(Emails) + 1
CampaignIds == {1, 2}
ProjectIds == {1, 2}

VARIABLES
    accounts,   \* provider: email -> identity id (0: not registered)
    sessions,   \* provider: the identity ids it has issued an access token for
    users,      \* store: the users table, in insertion order
    projects,   \* store: the projects table, in insertion order
    jar,        \* the browser's access_token cookie (NoToken: none)
    origin,     \* the request that last wrote the browser's cookie jar
    resp,       \* the last request and its response
    calls       \* the backend calls the last request issued, in order

vars == <<accounts, sessions, users, projects, jar, origin, resp, calls>>

\* ------------------------------------------------------------- python helpers
\* dict.get(key, default)
Get(d, key, default) == IF key \in DOMAIN d THEN d[key] ELSE default

\* truthiness of None / str values
Falsy(v) == v = None \/ v = Str("")

Return(w, v) == [raised |-> FALSE, exc |-> "", val |-> v, w |-> w]
Raise(w, msg) == [raised |-> TRUE, exc |-> msg, val |-> None, w |-> w]

\* the world a handler starts in
World == [accounts |-> accounts, sessions |-> sessions, users |-> users,
          projects |-> projects, calls |-> <<>>]

Called(w, fn, arg, out) == [w EXCEPT !.calls = Append(@, [fn |-> fn, arg |-> arg, out |-> out])]

CallNames(cs) == {cs[i].fn : i \in 1 .. Len(cs)}

\* ------------------------------------------------------------- the provider
EmailOf(accts, id) == CHOOSE e \in Emails : accts[e] = id

FreshId(accts) == Cardinality({e \in Emails : accts[e] # 0}) + 1

Identity(accts, id) == [id |-> id, email |-> EmailOf(accts, id)]

\* supabase.auth.sign_up: "ok" registers a new identity; for an email already
\* registered the provider raises or answers without a user
sign_up(w, email, password, o) ==
    LET w1(out) == Called(w, "auth.sign_up", email, out) IN
    CASE o = "ok" /\ w.accounts[email] = 0 ->
           LET id == FreshId(w.accounts)
               w2 == [w1("ok") EXCEPT !.accounts[email] = id]
           IN Return(w2, [user |-> [id |-> id, email |-> email]])
      [] o = "nouser" -> Return(w1("nouser"), [user |-> None])
      [] OTHER -> Raise(w1("raise"), IF w.accounts[email] # 0
                            THEN "User already registered"
                            ELSE "sign_up failed")

\* supabase.auth.sign_in_with_password: "ok" issues a session for a registered
\* identity
sign_in_with_password(w, email, password, o) ==
    LET w1(out) == Called(w, "auth.sign_in_with_password", email, out) IN
    CASE o = "ok" /\ w.accounts[email] # 0 ->
           LET id == w.accounts[email]
               w2 == [w1("ok") EXCEPT !.sessions = @ \cup {id}]
           IN Return(w2, [session |-> [access_token |-> id,
                                       expires_in |-> 3600],
                          user |-> [id |-> id, email |-> email]])
      [] o = "nosession" -> Return(w1("nosession"), [session |-> None, user |-> None])
      [] OTHER -> Raise(w1("raise"), "Invalid login credentials")

\* supabase.auth.get_user(token): "ok" resolves a token the provider issued and
\* still accepts; a token it rejects raises or answers without a user
get_user(w, token, o) ==
    LET w1(out) == Called(w, "auth.get_user", token, out) IN
    CASE o = "ok" /\ token \in w.sessions ->
           Return(w1("ok"), [user |-> Identity(w.accounts, token)])
      [] o = "nouser" -> Return(w1("nouser"), [user |-> None])
      [] OTHER -> Raise(w1("raise"), "invalid JWT")

\* supabase.auth.sign_in_with_oauth
sign_in_with_oauth(w, o) ==
    LET w1(out) == Called(w, "auth.sign_in_with_oauth", "google", out) IN
    CASE o = "ok" -> Return(w1("ok"), [url |-> "https://provider/authorize"])
      [] o = "nourl" -> Return(w1("nourl"), [provider |-> "google"])
      [] OTHER -> Raise(w1("raise"), "oauth unavailable")

\* supabase.auth.exchange_code_for_session: o is "raise", "nosession" or the
\* email of the identity the code stands for; an identity the provider does not
\* know yet is registered by the exchange
exchange_code_for_session(w, code, o) ==
    LET w1(out) == Called(w, "auth.exchange_code_for_session", code, out) IN
    CASE o \in Emails ->
           LET id == IF w.accounts[o] # 0 THEN w.accounts[o] ELSE FreshId(w.accounts)
               w2 == [w1("ok") EXCEPT !.accounts[o] = id, !.sessions = @ \cup {id}]
           IN Return(w2, [session |-> [access_token |-> id,
                                       expires_in |-> 3600],
                          user |-> [id |-> id, email |-> o]])
      [] o = "nosession" -> Return(w1("nosession"), [session |-> None, user |-> None])
      [] OTHER -> Raise(w1("raise"), "invalid grant")

\* ------------------------------------------------------------- the store
\* supabase.table('users').select('*').eq('id', id).execute()
select_users(w, id, o) ==
    LET w1(out) == Called(w, "users.select", id, out) IN
    IF o = "ok"
    THEN Return(w1("ok"), [data |-> SelectSeq(w.users, LAMBDA r : r.id = id)])
    ELSE Raise(w1("raise"), "store unavailable")

\* supabase.table('users').insert(user_data).execute(); the store is not
\* assumed to enforce any uniqueness
insert_users(w, user_data, o) ==
    LET w1(out) == Called(w, "users.insert", user_data.id, out) IN
    IF o = "ok"
    THEN Return([w1("ok") EXCEPT !.users = Append(@, user_data)], [data |-> <<user_data>>])
    ELSE Raise(w1("raise"), "insert failed")

\* supabase.table('projects').insert(project_data).execute(): "ok" stores the
\* row and returns it with the id the store gave it, "nodata" stores it and
\* returns no row data
insert_projects(w, project_data, o) ==
    LET w1(out) == Called(w, "projects.insert", project_data.title, out)
        row == [id |-> Len(w.projects) + 1] @@ project_data
    IN
    CASE o = "ok" /\ Len(w.projects) < MaxProjects ->
           Return([w1("ok") EXCEPT !.projects = Append(@, row)], [data |-> <<row>>])
      [] o = "nodata" /\ Len(w.projects) < MaxProjects ->
           Return([w1("nodata") EXCEPT !.projects = Append(@, row)], [data |-> <<>>])
      [] OTHER -> Raise(w1("raise"), "insert failed")

\* .order('created_at', desc=True): the rows, newest first
RECURSIVE OrderDesc(_)
OrderDesc(rows) ==
    IF rows = <<>> THEN <<>>
    ELSE LET i == CHOOSE k \in 1 .. Len(rows) :
                      \A j \in 1 .. Len(rows) :
                          /\ rows[k].created_at >= rows[j].created_at
                          /\ (rows[k].created_at = rows[j].created_at => k <= j)
             rest == SubSeq(rows, 1, i - 1) \o SubSeq(rows, i + 1, Len(rows))
         IN <<rows[i]>> \o OrderDesc(rest)

\* .limit(n)
Limit(rows, n) == IF Len(rows) <= n THEN rows ELSE SubSeq(rows, 1, n)

ResponseLimit == 100

\* the tables other systems write; a query sees whatever they hold at the time
CampaignTables ==
    {<<>>,
     <<[id |-> 1, project_id |-> 1, created_at |-> 1],
       [id |-> 2, project_id |-> 2, created_at |-> 3],
       [id |-> 3, project_id |-> 1, created_at |-> 2]>>}
CampaignQuestionTables ==
    {<<>>,
     <<[campaign_id |-> 1, question_id |-> 1], [campaign_id |-> 2, question_id |-> 2],
       [campaign_id |-> 1, question_id |-> 3]>>}
ResponseTables ==
    {<<>>,
     <<[id |-> 1, question_id |-> 1, created_at |-> 1],
       [id |-> 2, question_id |-> 3, created_at |-> 3],
       [id |-> 3, question_id |-> 2, created_at |-> 2]>>}

\* a read query: o is "ok" or "raise"; "ok" answers with the rows, and is logged
\* as "empty" when there are none
query(w, fn, rows, o) ==
    IF o = "ok"
    THEN Return(Called(w, fn, "*", IF rows = <<>> THEN "empty" ELSE "ok"), [data |-> rows])
    ELSE Raise(Called(w, fn, "*", "raise"), "query failed")

\* ------------------------------------------------------------- db_helpers.py
get_all_projects(w, o) ==
    LET r == query(w, "projects.select", OrderDesc(w.projects), o) IN
    IF r.raised THEN Return(r.w, <<>>)
    ELSE Return(r.w, IF r.val.data # <<>> THEN r.val.data ELSE <<>>)

create_project(w, title, ui_language, target_language, created_by, o) ==
    LET base == [title |-> title, ui_language |-> ui_language,
                 target_language |-> target_language,
                 created_at |-> Len(w.projects) + 1]
        project_data == IF created_by # 0
                        THEN base @@ [created_by |-> created_by] ELSE base
        r == insert_projects(w, project_data, o)
    IN
    IF r.raised THEN Raise(r.w, r.exc)
    ELSE Return(r.w, IF r.val.data # <<>> THEN r.val.data[1] ELSE <<>>)

get_project_campaigns(w, project_id, table, o) ==
    LET rows == OrderDesc(SelectSeq(table, LAMBDA c : c.project_id = project_id))
        r == query(w, "campaigns.select", rows, o)
    IN
    IF r.raised THEN Return(r.w, <<>>)
    ELSE Return(r.w, IF r.val.data # <<>> THEN r.val.data ELSE <<>>)

get_all_campaigns(w, table, o) ==
    LET r == query(w, "campaigns.select", OrderDesc(table), o) IN
    IF r.raised THEN Return(r.w, <<>>)
    ELSE Return(r.w, IF r.val.data # <<>> THEN r.val.data ELSE <<>>)

\* mutant: the second query of get_campaign_responses is outside the try
get_campaign_responses_uncaught(w, campaign_id, cq_table, r_table, o1, o2) ==
    LET r1 == query(w, "campaign_questions.select",
                    SelectSeq(cq_table, LAMBDA q : q.campaign_id = campaign_id), o1)
    IN
    IF r1.raised THEN Return(r1.w, <<>>)
    ELSE
      LET question_ids == {r1.val.data[i].question_id : i \in 1 .. Len(r1.val.data)} IN
      IF question_ids = {} THEN Return(r1.w, <<>>)
      ELSE
        LET rows == OrderDesc(SelectSeq(r_table,
                                        LAMBDA x : x.question_id \in question_ids))
            r2 == query(r1.w, "responses.select", rows, o2)
        IN
        IF r2.raised THEN Raise(r2.w, r2.exc) ELSE Return(r2.w, r2.val.data)


get_campaign_responses(w, campaign_id, cq_table, r_table, o1, o2) ==
    LET r1 == query(w, "campaign_questions.select",
                    SelectSeq(cq_table, LAMBDA q : q.campaign_id = campaign_id), o1)
    IN
    IF r1.raised THEN Return(r1.w, <<>>)
    ELSE
      LET question_ids == {r1.val.data[i].question_id : i \in 1 .. Len(r1.val.data)} IN
      IF question_ids = {} THEN Return(r1.w, <<>>)
      ELSE
        LET rows == OrderDesc(SelectSeq(r_table,
                                        LAMBDA x : x.question_id \in question_ids))
            r2 == query(r1.w, "responses.select", rows, o2)
        IN
        IF r2.raised THEN Return(r2.w, <<>>)
        ELSE Return(r2.w, IF r2.val.data # <<>> THEN r2.val.data ELSE <<>>)

get_all_responses(w, table, o) ==
    LET r == query(w, "responses.select", Limit(OrderDesc(table), ResponseLimit), o) IN
    IF r.raised THEN Return(r.w, <<>>)
    ELSE Return(r.w, IF r.val.data # <<>> THEN r.val.data ELSE <<>>)

\* mutant: sign-up without its try/except
create_user_account_uncaught(w, email, password, phone, o) ==
    LET r1 == sign_up(w, email, password, o.auth) IN
    IF r1.raised THEN Raise(r1.w, r1.exc)
    ELSE IF r1.val.user # None THEN
      LET user_data == [email |-> email, user_role |-> "linguist", id |-> r1.val.user.id]
          r2 == insert_users(r1.w, user_data, o.insert)
      IN
      IF r2.raised THEN Raise(r2.w, r2.exc)
      ELSE Return(r2.w, [success |-> TRUE, user |-> r1.val.user])
    ELSE Return(r1.w, [success |-> FALSE, error |-> "Failed to create account"])

\* ------------------------------------------------------------- auth.py
create_user_account(w, email, password, phone, o) ==
    LET r1 == sign_up(w, email, password, o.auth) IN
    IF r1.raised THEN Return(r1.w, [success |-> FALSE, error |-> r1.exc])
    ELSE IF r1.val.user # None THEN
      LET base == [email |-> email, user_role |-> "linguist", id |-> r1.val.user.id]
          user_data == IF ~Falsy(phone)
                       THEN base @@ [phone_whatsapp |-> phone.str] ELSE base
          r2 == insert_users(r1.w, user_data, o.insert)
      IN
      IF r2.raised THEN Return(r2.w, [success |-> FALSE, error |-> r2.exc])
      ELSE Return(r2.w, [success |-> TRUE, user |-> r1.val.user])
    ELSE Return(r1.w, [success |-> FALSE, error |-> "Failed to create account"])

\* mutant: login without its try/except
login_user_uncaught(w, email, password, o) ==
    LET r == sign_in_with_password(w, email, password, o.auth) IN
    IF r.raised THEN Raise(r.w, r.exc)
    ELSE IF r.val.session # None
    THEN Return(r.w, [success |-> TRUE, session |-> r.val.session, user |-> r.val.user])
    ELSE Return(r.w, [success |-> FALSE, error |-> "Invalid credentials"])


login_user(w, email, password, o) ==
    LET r == sign_in_with_password(w, email, password, o.auth) IN
    IF r.raised THEN Return(r.w, [success |-> FALSE, error |-> r.exc])
    ELSE IF r.val.session # None
    THEN Return(r.w, [success |-> TRUE, session |-> r.val.session, user |-> r.val.user])
    ELSE Return(r.w, [success |-> FALSE, error |-> "Invalid credentials"])

\* the request is its access_token cookie
get_current_user(w, access_token, o) ==
    IF access_token = NoToken THEN Return(w, None)
    ELSE
      LET r1 == get_user(w, access_token, o.auth) IN
      IF r1.raised THEN Return(r1.w, None)
      ELSE IF r1.val.user # None THEN
        LET r2 == select_users(r1.w, r1.val.user.id, o.select) IN
        IF r2.raised THEN Return(r2.w, None)
        ELSE IF r2.val.data # <<>> THEN Return(r2.w, r2.val.data[1])
        ELSE Return(r2.w, None)
      ELSE Return(r1.w, None)

\* mutant: the gate never redirects
redirect_never(user) == None

\* the RedirectResponse, or None
redirect_if_not_authenticated(user) ==
    IF user = None
    THEN [status |-> 303, location |-> "/linguist/login"]
    ELSE None

get_google_oauth_url(w, o) ==
    LET r == sign_in_with_oauth(w, o.auth) IN
    IF r.raised THEN Return(r.w, Str(""))
    ELSE Return(r.w, IF "url" \in DOMAIN r.val THEN Str(r.val.url) ELSE Str(""))

\* mutant: the callback inserts the users row without looking for one
handle_oauth_callback_no_lookup(w, code, o) ==
    LET r1 == exchange_code_for_session(w, code, o.auth) IN
    IF r1.raised THEN Return(r1.w, [success |-> FALSE, error |-> r1.exc])
    ELSE IF r1.val.session # None /\ r1.val.user # None THEN
      LET user_data == [id |-> r1.val.user.id, email |-> r1.val.user.email,
                        user_role |-> "linguist"]
          r3 == insert_users(r1.w, user_data, o.insert)
      IN
      IF r3.raised THEN Return(r3.w, [success |-> FALSE, error |-> r3.exc])
      ELSE Return(r3.w, [success |-> TRUE, session |-> r1.val.session,
                         user |-> r1.val.user])
    ELSE Return(r1.w, [success |-> FALSE, error |-> "OAuth callback failed"])


handle_oauth_callback(w, code, o) ==
    LET r1 == exchange_code_for_session(w, code, o.auth) IN
    IF r1.raised THEN Return(r1.w, [success |-> FALSE, error |-> r1.exc])
    ELSE IF r1.val.session # None /\ r1.val.user # None THEN
      LET r2 == select_users(r1.w, r1.val.user.id, o.select) IN
      IF r2.raised THEN Return(r2.w, [success |-> FALSE, error |-> r2.exc])
      ELSE
        LET success == [success |-> TRUE, session |-> r1.val.session,
                        user |-> r1.val.user]
        IN
        IF r2.val.data = <<>> THEN
          LET user_data == [id |-> r1.val.user.id, email |-> r1.val.user.email,
                            user_role |-> "linguist"]
              r3 == insert_users(r2.w, user_data, o.insert)
          IN
          IF r3.raised THEN Return(r3.w, [success |-> FALSE, error |-> r3.exc])
          ELSE Return(r3.w, success)
        ELSE Return(r2.w, success)
    ELSE Return(r1.w, [success |-> FALSE, error |-> "OAuth callback failed"])

\* ------------------------------------------------------------- routes.py
\* a response; the fields a handler does not set keep these values
Response == [status |-> 200, location |-> "", set_cookie |-> NoToken,
             delete_cookie |-> FALSE, template |-> "", error |-> None,
             success |-> None, data |-> <<>>, user |-> None, body |-> None]

Redirect(url) == [Response EXCEPT !.status = 303, !.location = url]

Template(name, error, success, data, user) ==
    [Response EXCEPT !.template = name, !.error = error, !.success = success,
                     !.data = data, !.user = user]

Body(b) == [Response EXCEPT !.body = b]

\* an exception no handler catches: the framework answers 500
ServerError(msg) == [Response EXCEPT !.status = 500, !.error = Str(msg)]

\* what a handler did: its response, the world after it, and the value the
\* Auth Layer / Data Access function it called returned
Handled(w, response, result) == [w |-> w, resp |-> response, result |-> result]

login(w, email, password, o) ==
    LET r == login_user(w, email, password, o) IN
    IF r.raised THEN Handled(r.w, ServerError(r.exc), r)
    ELSE IF r.val.success
    THEN Handled(r.w, [Redirect("/linguist/projects") EXCEPT
                          !.set_cookie = r.val.session.access_token], r)
    ELSE Handled(r.w, Template("login.html", Str(Get(r.val, "error", "Login failed")),
                               None, <<>>, None), r)

signup(w, email, password, phone, o) ==
    LET r == create_user_account(w, email, password, phone, o) IN
    IF r.raised THEN Handled(r.w, ServerError(r.exc), r)
    ELSE IF r.val.success
    THEN Handled(r.w, Template("login.html", None,
                               Str("Account created! Please log in."), <<>>, None), r)
    ELSE Handled(r.w, Template("signup.html", Str(Get(r.val, "error", "Signup failed")),
                               None, <<>>, None), r)

\* mutant: logout redirects but leaves the cookie
logout_keeps_cookie(w) ==
    Handled(w, Redirect("/linguist/login"), Return(w, None))


logout(w) ==
    Handled(w, [Redirect("/linguist/login") EXCEPT !.delete_cookie = TRUE],
            Return(w, None))

google_login(w, o) ==
    LET r == get_google_oauth_url(w, o) IN
    IF r.raised THEN Handled(r.w, ServerError(r.exc), r)
    ELSE IF r.val # Str("")
    THEN Handled(r.w, Body([url |-> r.val.str]), r)
    ELSE Handled(r.w, Body([error |-> "Failed to get Google OAuth URL"]), r)

\* mutant: the callback route exchanges whatever code it is given
oauth_callback_no_check(w, code, o) ==
    LET r == handle_oauth_callback(w, code, o) IN
    IF r.raised THEN Handled(r.w, ServerError(r.exc), r)
    ELSE IF r.val.success
    THEN Handled(r.w, [Redirect("/linguist/projects") EXCEPT
                          !.set_cookie = r.val.session.access_token], r)
    ELSE Handled(r.w, Redirect("/linguist/login?error=" \o
                               Get(r.val, "error", "oauth_failed")), r)


oauth_callback(w, code, o) ==
    IF Falsy(code)
    THEN Handled(w, Redirect("/linguist/login?error=no_code"), Return(w, None))
    ELSE
      LET r == handle_oauth_callback(w, code.str, o) IN
      IF r.raised THEN Handled(r.w, ServerError(r.exc), r)
      ELSE IF r.val.success
      THEN Handled(r.w, [Redirect("/linguist/projects") EXCEPT
                            !.set_cookie = r.val.session.access_token], r)
      ELSE Handled(r.w, Redirect("/linguist/login?error=" \o
                                 Get(r.val, "error", "oauth_failed")), r)

\* a protected GET: resolve the session, redirect when there is none, else
\* render the page over the rows `fetch` answers with
Gate(w, cookie, o) ==
    LET u == get_current_user(w, cookie, o) IN
    [u |-> u,
     redirect |-> IF u.raised THEN None ELSE redirect_if_not_authenticated(u.val)]

linguist_home(w, cookie, o) ==
    LET g == Gate(w, cookie, o) IN
    IF g.u.raised THEN Handled(g.u.w, ServerError(g.u.exc), g.u)
    ELSE IF g.redirect # None
    THEN Handled(g.u.w, Redirect(g.redirect.location), g.u)
    ELSE Handled(g.u.w, [Redirect("/linguist/projects") EXCEPT !.status = 307], g.u)

list_projects(w, cookie, o) ==
    LET g == Gate(w, cookie, o) IN
    IF g.u.raised THEN Handled(g.u.w, ServerError(g.u.exc), g.u)
    ELSE IF g.redirect # None
    THEN Handled(g.u.w, Redirect(g.redirect.location), g.u)
    ELSE
      LET r == get_all_projects(g.u.w, o.query) IN
      IF r.raised
      THEN Handled(r.w, Template("projects.html", Str(r.exc), None, <<>>, g.u.val), g.u)
      ELSE Handled(r.w, Template("projects.html", None, None, r.val, g.u.val), g.u)

list_campaigns(w, cookie, table, o) ==
    LET g == Gate(w, cookie, o) IN
    IF g.u.raised THEN Handled(g.u.w, ServerError(g.u.exc), g.u)
    ELSE IF g.redirect # None
    THEN Handled(g.u.w, Redirect(g.redirect.location), g.u)
    ELSE
      LET r == get_all_campaigns(g.u.w, table, o.query) IN
      IF r.raised
      THEN Handled(r.w, Template("campaigns.html", Str(r.exc), None, <<>>, g.u.val), g.u)
      ELSE Handled(r.w, Template("campaigns.html", None, None, r.val, g.u.val), g.u)

list_questions(w, cookie, o) ==
    LET g == Gate(w, cookie, o) IN
    IF g.u.raised THEN Handled(g.u.w, ServerError(g.u.exc), g.u)
    ELSE IF g.redirect # None
    THEN Handled(g.u.w, Redirect(g.redirect.location), g.u)
    ELSE Handled(g.u.w, Template("questions.html", None, None, <<>>, g.u.val), g.u)

list_responses(w, cookie, table, o) ==
    LET g == Gate(w, cookie, o) IN
    IF g.u.raised THEN Handled(g.u.w, ServerError(g.u.exc), g.u)
    ELSE IF g.redirect # None
    THEN Handled(g.u.w, Redirect(g.redirect.location), g.u)
    ELSE
      LET r == get_all_responses(g.u.w, table, o.query) IN
      IF r.raised
      THEN Handled(r.w, Template("responses.html", Str(r.exc), None, <<>>, g.u.val), g.u)
      ELSE Handled(r.w, Template("responses.html", None, None, r.val, g.u.val), g.u)

\* created_at[:10]: the date part of the timestamp
Date(created_at) == [date |-> created_at]

\* the <tr> fragment, by its cells
Row(project) ==
    [tr |-> <<Get(project, "id", "N/A"), Get(project, "title", ""),
              Get(project, "ui_language", ""), Get(project, "target_language", ""),
              IF "created_at" \in DOMAIN project
              THEN Date(project.created_at) ELSE Str("N/A")>>]

ErrorRow(msg) == [tr |-> <<msg>>]

\* mutant: the project form inserts without looking at the session
create_project_route_no_gate(w, cookie, title, ui_language, target_language, o) ==
    LET u == get_current_user(w, cookie, o)
        r == create_project(u.w, title, ui_language, target_language,
                            IF u.val = None THEN 0 ELSE u.val.id, o.query)
    IN
    IF r.raised THEN Handled(r.w, Body(ErrorRow("Error: " \o r.exc)), r)
    ELSE Handled(r.w, Body(Row(r.val)), r)


create_project_route(w, cookie, title, ui_language, target_language, o) ==
    LET u == get_current_user(w, cookie, o) IN
    IF u.raised THEN Handled(u.w, ServerError(u.exc), u)
    ELSE IF u.val = None THEN Handled(u.w, Body(ErrorRow("Not authenticated")), u)
    ELSE
      LET r == create_project(u.w, title, ui_language, target_language,
                              u.val.id, o.query)
      IN
      IF r.raised THEN Handled(r.w, Body(ErrorRow("Error: " \o r.exc)), r)
      ELSE Handled(r.w, Body(Row(r.val)), r)

\* ------------------------------------------------------------- the system
\* the outcomes of the backend calls of one request, in the order of the calls:
\* the provider call, the users select, the users insert, the data query
Outcomes == [auth : {"ok", "nouser", "nosession", "nourl", "raise"} \cup Emails,
             select : {"ok", "raise"}, insert : {"ok", "raise"},
             query : {"ok", "nodata", "raise"}]

\* the outcomes a request with these calls can meet; a call that is not made,
\* or that follows a failed one, has no outcome (written "ok")
Meets(o, auths, selects, inserts, queries) ==
    /\ o.auth \in auths /\ o.select \in selects
    /\ o.insert \in inserts /\ o.query \in queries
    /\ o.auth \in {"nouser", "nosession", "nourl", "raise"}
           => o.select = "ok" /\ o.insert = "ok" /\ o.query = "ok"
    /\ o.select = "raise" => o.insert = "ok" /\ o.query = "ok"

\* the browser's cookie jar after a response it received
JarAfter(response) ==
    IF response.set_cookie # NoToken THEN response.set_cookie
    ELSE IF response.delete_cookie THEN NoToken
    ELSE jar

\* "start" until the browser logs in or out, then the request that did it
OriginAfter(op, response) ==
    IF response.set_cookie # NoToken \/ op = "GET /linguist/logout" THEN op
    ELSE origin

\* a request answered: the world, the response and the browser move on
Commit(h, op, cookie, viaJar, form) ==
    /\ accounts' = h.w.accounts
    /\ sessions' = h.w.sessions
    /\ users' = h.w.users
    /\ projects' = h.w.projects
    /\ calls' = h.w.calls
    /\ resp' = [op |-> op, cookie |-> cookie, viaJar |-> viaJar, form |-> form,
                r |-> h.resp, result |-> h.result.val, raised |-> h.result.raised]
    /\ jar' = IF viaJar THEN JarAfter(h.resp) ELSE jar
    /\ origin' = IF viaJar THEN OriginAfter(op, h.resp) ELSE origin

\* the cookie a request carries: the browser's, or a forged one from another caller
Cookie(viaJar) == IF viaJar THEN jar ELSE ForgedToken

Init ==
    /\ accounts = [e \in Emails |-> 0]
    /\ sessions = {}
    /\ users = <<>>
    /\ projects = <<>>
    /\ jar = NoToken
    /\ origin = "start"
    /\ resp = [op |-> "start", cookie |-> NoToken, viaJar |-> FALSE, form |-> None,
               r |-> Response, result |-> None, raised |-> FALSE]
    /\ calls = <<>>

Login ==
    \E email \in Emails, password \in Passwords, o \in Outcomes :
        /\ Meets(o, {"ok", "nosession", "raise"}, {"ok"}, {"ok"}, {"ok"})
        /\ Commit(login(World, email, password, o), "POST /linguist/login", jar, TRUE,
                  [email |-> email, password |-> password])

Signup ==
    \E email \in Emails, password \in Passwords, phone \in Phones, o \in Outcomes :
        /\ Meets(o, {"ok", "nouser", "raise"}, {"ok"}, {"ok", "raise"}, {"ok"})
        /\ Commit(signup(World, email, password, phone, o), "POST /linguist/signup",
                  jar, TRUE, [email |-> email, password |-> password, phone |-> phone])

Logout ==
    Commit(logout(World), "GET /linguist/logout", jar, TRUE, None)

GoogleLogin ==
    \E o \in Outcomes :
        /\ Meets(o, {"ok", "nourl", "raise"}, {"ok"}, {"ok"}, {"ok"})
        /\ Commit(google_login(World, o), "GET /linguist/auth/google", jar, TRUE, None)

OAuthCallback ==
    \E code \in Codes, o \in Outcomes :
        /\ Meets(o, Emails \cup {"nosession", "raise"}, {"ok", "raise"},
                 {"ok", "raise"}, {"ok"})
        /\ Commit(oauth_callback(World, code, o), "GET /linguist/auth/callback",
                  jar, TRUE, [code |-> code])

Home ==
    \E viaJar \in BOOLEAN, o \in Outcomes :
        /\ Meets(o, {"ok", "nouser", "raise"}, {"ok", "raise"}, {"ok"}, {"ok"})
        /\ Commit(linguist_home(World, Cookie(viaJar), o), "GET /linguist/",
                  Cookie(viaJar), viaJar, None)

ListProjects ==
    \E viaJar \in BOOLEAN, o \in Outcomes :
        /\ Meets(o, {"ok", "nouser", "raise"}, {"ok", "raise"}, {"ok"}, {"ok", "raise"})
        /\ Commit(list_projects(World, Cookie(viaJar), o), "GET /linguist/projects",
                  Cookie(viaJar), viaJar, None)

ListCampaigns ==
    \E viaJar \in BOOLEAN, table \in CampaignTables, o \in Outcomes :
        /\ Meets(o, {"ok", "nouser", "raise"}, {"ok", "raise"}, {"ok"}, {"ok", "raise"})
        /\ Commit(list_campaigns(World, Cookie(viaJar), table, o),
                  "GET /linguist/campaigns", Cookie(viaJar), viaJar, None)

ListQuestions ==
    \E viaJar \in BOOLEAN, o \in Outcomes :
        /\ Meets(o, {"ok", "nouser", "raise"}, {"ok", "raise"}, {"ok"}, {"ok"})
        /\ Commit(list_questions(World, Cookie(viaJar), o), "GET /linguist/questions",
                  Cookie(viaJar), viaJar, None)

ListResponses ==
    \E viaJar \in BOOLEAN, table \in ResponseTables, o \in Outcomes :
        /\ Meets(o, {"ok", "nouser", "raise"}, {"ok", "raise"}, {"ok"}, {"ok", "raise"})
        /\ Commit(list_responses(World, Cookie(viaJar), table, o),
                  "GET /linguist/responses", Cookie(viaJar), viaJar, None)

CreateProject ==
    \E viaJar \in BOOLEAN, title \in Titles, ui_language \in UiLangs,
       target_language \in TargetLangs, o \in Outcomes :
        /\ Meets(o, {"ok", "nouser", "raise"}, {"ok", "raise"}, {"ok"},
                 {"ok", "nodata", "raise"})
        /\ Commit(create_project_route(World, Cookie(viaJar), title, ui_language,
                                       target_language, o),
                  "POST /linguist/projects", Cookie(viaJar), viaJar,
                  [title |-> title, ui_language |-> ui_language,
                   target_language |-> target_language])

\* the Data Access functions no route calls, called directly
ProjectCampaigns ==
    \E project_id \in ProjectIds, table \in CampaignTables, o \in {"ok", "raise"} :
        LET r == get_project_campaigns(World, project_id, table, o) IN
        Commit(Handled(r.w, Response, r), "db_helpers.get_project_campaigns",
               NoToken, FALSE, [project_id |-> project_id])

CampaignResponses ==
    \E campaign_id \in CampaignIds, cq \in CampaignQuestionTables,
       rt \in ResponseTables, o1 \in {"ok", "raise"}, o2 \in {"ok", "raise"} :
        LET r == get_campaign_responses(World, campaign_id, cq, rt, o1, o2) IN
        Commit(Handled(r.w, Response, r), "db_helpers.get_campaign_responses",
               NoToken, FALSE, [campaign_id |-> campaign_id])

Next ==
    \/ Login
    \/ Signup
    \/ Logout
    \/ GoogleLogin
    \/ OAuthCallback
    \/ Home
    \/ ListProjects
    \/ ListCampaigns
    \/ ListQuestions
    \/ ListResponses
    \/ CreateProject

Spec == Init /\ [][Next]_vars

\* the Data Access Layer under every caller it has: the pages that list, the
\* project form, and the two functions called directly
DataNext ==
    \/ Signup
    \/ Login
    \/ ListProjects
    \/ ListCampaigns
    \/ ListResponses
    \/ CreateProject
    \/ ProjectCampaigns
    \/ CampaignResponses

DataSpec == Init /\ [][DataNext]_vars


\* ------------------------------------------------------------- properties
ProtectedPages == {"GET /linguist/projects", "GET /linguist/campaigns",
                   "GET /linguist/questions", "GET /linguist/responses"}

LoginPage == "/linguist/login"

RedirectedToLogin == resp.r.status = 303 /\ resp.r.location = LoginPage

Rendered == resp.r.status = 200 /\ resp.r.template # ""

Outcome(fn) == {calls[i].out : i \in {k \in 1 .. Len(calls) : calls[k].fn = fn}}

DataQueries == {"projects.select", "campaigns.select", "responses.select",
                "campaign_questions.select", "projects.insert"}

HasRow(table, id) == \E i \in 1 .. Len(table) : table[i].id = id

\* the last request came from an unauthenticated caller: no cookie, a token the
\* provider rejects, a provider or store error, or no users row for the identity
Unauthenticated ==
    \/ resp.cookie = NoToken
    \/ resp.cookie \notin sessions
    \/ Outcome("auth.get_user") # {"ok"}
    \/ Outcome("users.select") # {"ok"}
    \/ ~HasRow(users, resp.cookie)

\* C1: an unauthenticated GET of /linguist/projects, /campaigns, /questions or
\* /responses is answered by a 303 redirect to /linguist/login; no page is
\* rendered and no data-access query is issued.
C1_UnauthenticatedGetRedirects ==
    (resp.op \in ProtectedPages /\ Unauthenticated)
        => /\ RedirectedToLogin
           /\ resp.r.template = ""
           /\ resp.r.data = <<>>
           /\ CallNames(calls) \cap DataQueries = {}

\* a caller whose token the provider accepts but who has no users row is sent
\* to the login page
C1_Witness ==
    /\ resp.op = "GET /linguist/responses"
    /\ resp.cookie \in sessions
    /\ Outcome("auth.get_user") = {"ok"}
    /\ Outcome("users.select") = {"ok"}
    /\ ~HasRow(users, resp.cookie)
    /\ RedirectedToLogin

\* C2: a login that succeeds at the provider sets the access_token cookie to the
\* session's token, and a later GET of a protected page by the browser carrying
\* that cookie, while the provider accepts the token and the store answers,
\* renders the page instead of redirecting to login.
C2_LoginCookieReachesPage ==
    /\ (resp.op = "POST /linguist/login" /\ Outcome("auth.sign_in_with_password") = {"ok"})
           => /\ resp.r.set_cookie = resp.result.session.access_token
              /\ jar = resp.r.set_cookie
    /\ (/\ resp.op \in ProtectedPages
        /\ resp.viaJar
        /\ origin = "POST /linguist/login"
        /\ Outcome("auth.get_user") = {"ok"}
        /\ Outcome("users.select") = {"ok"})
           => Rendered

\* C3: GET /linguist/logout answers 303 to /linguist/login and deletes the
\* access_token cookie; from then until the browser logs in again, every
\* protected page it asks for is answered by a 303 redirect to /linguist/login.
C3_LogoutThenRedirect ==
    /\ resp.op = "GET /linguist/logout"
           => RedirectedToLogin /\ resp.r.delete_cookie /\ jar = NoToken
    /\ origin = "GET /linguist/logout" => jar = NoToken
    /\ (/\ resp.op \in ProtectedPages \cup {"GET /linguist/"}
        /\ resp.viaJar
        /\ origin = "GET /linguist/logout")
           => RedirectedToLogin /\ resp.r.template = ""

\* a browser that was logged in as a user with a users row logs out and asks for
\* the projects page
C3_Witness ==
    /\ resp.op = "GET /linguist/projects"
    /\ resp.viaJar
    /\ origin = "GET /linguist/logout"
    /\ \E id \in sessions : HasRow(users, id)
    /\ RedirectedToLogin

\* C4: POST /linguist/signup with an email the provider already has registered
\* does not raise: create_user_account returns {success: False, error}, the
\* signup page is rendered with that error, and no users row is inserted.
C4_SignupRegisteredEmail ==
    [][(resp'.op = "POST /linguist/signup" /\ accounts[resp'.form.email] # 0)
           => /\ ~resp'.raised
              /\ resp'.result.success = FALSE
              /\ "error" \in DOMAIN resp'.result
              /\ resp'.r.status = 200
              /\ resp'.r.template = "signup.html"
              /\ resp'.r.error = Str(resp'.result.error)
              /\ users' = users
              /\ "users.insert" \notin CallNames(calls')]_vars

\* the provider refused a sign-up for a registered email and the page shows it
C4_Witness ==
    /\ resp.op = "POST /linguist/signup"
    /\ resp.r.template = "signup.html"
    /\ resp.r.error = Str("User already registered")
    /\ accounts[resp.form.email] # 0

\* C5: POST /linguist/projects with the three fields and a valid session returns
\* a table row holding the submitted title, UI language and target language,
\* whatever the insert answers with as long as it does not raise.
C5_RowHoldsSubmittedFields ==
    (resp.op = "POST /linguist/projects"
     /\ Outcome("projects.insert") \cap {"ok", "nodata"} # {})
        => /\ Len(resp.r.body.tr) = 5
           /\ resp.r.body.tr[2] = resp.form.title
           /\ resp.r.body.tr[3] = resp.form.ui_language
           /\ resp.r.body.tr[4] = resp.form.target_language

\* C6: GET /linguist/auth/callback without a code (or with an empty one) answers
\* 303 to /linguist/login?error=no_code, calls no backend (no code exchange, no
\* users insert) and sets no cookie.
C6_CallbackWithoutCode ==
    (resp.op = "GET /linguist/auth/callback" /\ Falsy(resp.form.code))
        => /\ resp.r.status = 303
           /\ resp.r.location = "/linguist/login?error=no_code"
           /\ resp.r.set_cookie = NoToken
           /\ calls = <<>>

C6_Witness ==
    /\ resp.op = "GET /linguist/auth/callback"
    /\ resp.form.code = None
    /\ resp.r.location = "/linguist/login?error=no_code"
    /\ users # <<>>

\* the requests whose recorded result is what one Auth Layer operation returned
AuthLayerOps == {"POST /linguist/signup", "POST /linguist/login",
                 "GET /linguist/auth/google", "GET /linguist/auth/callback"}
                \cup ProtectedPages \cup {"GET /linguist/"}

\* a provider or store call the Auth Layer made for the last request raised
AuthLayerCalls == {"auth.sign_up", "auth.sign_in_with_password", "auth.get_user",
                   "auth.sign_in_with_oauth", "auth.exchange_code_for_session",
                   "users.select", "users.insert"}

BackendRaised == \E i \in 1 .. Len(calls) :
                     calls[i].fn \in AuthLayerCalls /\ calls[i].out = "raise"

UniformFailure(v) == "success" \in DOMAIN v /\ v.success = FALSE /\ "error" \in DOMAIN v

\* C7 as stated: every Auth Layer operation turns every error the provider or the
\* store raises into a returned {success: False, error} value.
C7_UniformShapeEverywhere ==
    (resp.op \in AuthLayerOps /\ BackendRaised)
        => ~resp.raised /\ UniformFailure(resp.result)

\* C7 amended: no Auth Layer operation propagates an error of the provider or
\* the store; on such an error sign-up, login and the OAuth callback return
\* {success: False, error}, the OAuth URL operation returns the empty string and
\* the current-user lookup returns None.
C7_ErrorsCaughtPerOperation ==
    (resp.op \in AuthLayerOps /\ BackendRaised)
        => /\ ~resp.raised
           /\ resp.op \in {"POST /linguist/signup", "POST /linguist/login",
                           "GET /linguist/auth/callback"}
                  => UniformFailure(resp.result)
           /\ resp.op = "GET /linguist/auth/google" => resp.result = Str("")
           /\ resp.op \in ProtectedPages \cup {"GET /linguist/"} => resp.result = None

\* the provider fails while the OAuth URL is asked for
C7_Witness ==
    /\ resp.op = "GET /linguist/auth/google"
    /\ Outcome("auth.sign_in_with_oauth") = {"raise"}
    /\ resp.result = Str("")
    /\ resp.r.body = [error |-> "Failed to get Google OAuth URL"]

\* the query a read function ends with, and what it answered
LastCall == calls[Len(calls)]

ReadFailedOrEmpty ==
    /\ calls # <<>>
    /\ LastCall.fn \in {"projects.select", "campaigns.select", "responses.select",
                        "campaign_questions.select"}
    /\ LastCall.out \in {"raise", "empty"}

\* C8: every read function of the Data Access Layer returns an empty list and
\* does not raise when its query fails or yields no data; create_project alone
\* re-raises, and POST /linguist/projects then answers with an error row that
\* carries the failure message.
C8_ReadsReturnEmptyCreateReraises ==
    /\ (resp.op \in {"db_helpers.get_project_campaigns",
                     "db_helpers.get_campaign_responses"})
           => ~resp.raised /\ (ReadFailedOrEmpty => resp.result = <<>>)
    /\ (resp.op \in {"GET /linguist/projects", "GET /linguist/campaigns",
                     "GET /linguist/responses"} /\ ReadFailedOrEmpty)
           => Rendered /\ resp.r.error = None /\ resp.r.data = <<>>
    /\ (resp.op = "POST /linguist/projects" /\ Outcome("projects.insert") = {"raise"})
           => /\ resp.raised
              /\ resp.r.status = 200
              /\ resp.r.body = ErrorRow("Error: insert failed")

\* the second query of get_campaign_responses fails
C8_Witness ==
    /\ resp.op = "db_helpers.get_campaign_responses"
    /\ Len(calls) = 2
    /\ calls[1].out = "ok"
    /\ calls[2].out = "raise"
    /\ resp.result = <<>>

\* C9: POST /linguist/projects by an unauthenticated caller answers with the
\* inline 'Not authenticated' row, not a redirect, issues no insert and leaves
\* the projects table as it was.
C9_UnauthenticatedCreate ==
    [][(resp'.op = "POST /linguist/projects" /\ Unauthenticated')
           => /\ resp'.r.status = 200
              /\ resp'.r.location = ""
              /\ resp'.r.body = ErrorRow("Not authenticated")
              /\ "projects.insert" \notin CallNames(calls')
              /\ projects' = projects]_vars

\* a logged-in identity without a users row posts the project form
C9_Witness ==
    /\ resp.op = "POST /linguist/projects"
    /\ resp.cookie \in sessions
    /\ Outcome("auth.get_user") = {"ok"}
    /\ Outcome("users.select") = {"ok"}
    /\ ~HasRow(users, resp.cookie)
    /\ resp.r.body = ErrorRow("Not authenticated")

IdentityIds == {accounts[e] : e \in Emails} \ {0}

IsPrefix(a, b) == Len(a) <= Len(b) /\ SubSeq(b, 1, Len(a)) = a

UsersTableSound ==
    /\ \A i, j \in 1 .. Len(users) : users[i].id = users[j].id => i = j
    /\ \A i \in 1 .. Len(users) :
           users[i].user_role = "linguist" /\ users[i].id \in IdentityIds

\* the users inserts of the last request
Inserts(cs) == {i \in 1 .. Len(cs) : cs[i].fn = "users.insert"}

====
